---- MODULE Spec2Model ----
(***************************************************************************)
(* Session / authentication lifecycle of the house_front mobile client:    *)
(* the axios instance `api` with its request and response interceptors     *)
(* (src/services/api.ts) and the session manager built on it               *)
(* (src/hooks/useAuth.ts).                                                 *)
(*                                                                         *)
(* Granularity.  JavaScript runs one task at a time and a task gives up    *)
(* the thread only at an `await`.  One action of this model is one such    *)
(* segment of one task: it runs from the resumption after an await up to   *)
(* and including the issue of the next awaited storage operation or        *)
(* network request.  A storage operation takes effect when it is issued    *)
(* (the native module serves the calls in the order they are made).  A     *)
(* segment with no effect on shared state is folded into the previous one. *)
(*                                                                         *)
(* Storage operations are taken to succeed, except those of                *)
(* authService.logout, whose rejection logout() explicitly swallows.       *)
(***************************************************************************)
EXTENDS Integers, Sequences, FiniteSets, TLC

\* Number of cooperative tasks (UI callbacks) that can be running an operation.
NProc == 2
\* Number of token pairs the backend issues in one exploration.
MaxTok == 2
\* Number of operations that are started while another one is in progress.
MaxOverlap == 1

Procs == 1..NProc

\* SecureStore.getItemAsync resolves to null for a missing key.
None == 0
\* AsyncStorage.getItem resolves to null for a missing key.
Absent == "null"

\* UserRole
UserRole == {"client", "designer"}
\* Values the backend may send as user_type: missing/empty, the two roles,
\* and an unrecognized one.
UserTypes == {"", "client", "designer", "admin"}
\* Outcome of a request that is not answered 2xx: status 401, or 0 for every
\* other failure (no response: network error or timeout; or another status).
\* The code tests the status only against 401 (api.ts line 43).
ErrorStatus == {401, 0}

\* Request paths, as sequences of path segments ("/auth/token/refresh/" is
\* <<"auth","token","refresh">>), so that String.includes is computed.
URL_DESIGNS == <<"designs">>
URL_BOOKINGS == <<"bookings">>
URL_TOKEN == <<"auth", "token">>
URL_REFRESH == <<"auth", "token", "refresh">>
URL_REGISTER == <<"auth", "register">>
URL_PROFILE == <<"auth", "profile">>
\* Paths a caller can request directly: designService, bookingService and
\* authService.getProfile.
RequestUrls == {URL_DESIGNS, URL_BOOKINGS, URL_PROFILE}

\* url.includes(pat) for a pattern of whole path segments ('/auth/', '/auth/token/').
Includes(url, pat) ==
    \E i \in 1..(Len(url) - Len(pat) + 1) : SubSeq(url, i, i + Len(pat) - 1) = pat

\* Headers of a request: no Authorization header, or `Bearer ${token}`.
NoAuthorization == <<>>
Bearer(token) == <<"Bearer", token>>

\* JSON.stringify(user): the defined fields, in order, as key/value pairs.
\* A field whose value is undefined is left out.
JSONstringify(user) ==
    <<"id", user.id, "role", user.role>>
        \o (IF user.user_type # "undefined" THEN <<"user_type", user.user_type>> ELSE <<>>)

\* JSON.parse of a stored user record.
JSONparse(json) ==
    [id |-> json[2], role |-> json[4],
     user_type |-> IF Len(json) >= 6 THEN json[6] ELSE "undefined"]

NoUser == [id |-> "none", role |-> "none", user_type |-> "undefined"]
NoData == [access |-> None, refresh |-> None, user_type |-> ""]

VARIABLES
    secure,   \* SecureStore: access_token, refresh_token, current_user
    mirror,   \* AsyncStorage: current_user, userRole, isLoggedIn
    issued,   \* number of token pairs the backend has issued
    started,  \* number of operations started while another was in progress
    task      \* per task: the operation it runs, its position and its locals

vars == <<secure, mirror, issued, started, task>>

\* A task that runs no operation.
IdleTask ==
    [op |-> "none", pc |-> "idle",
     \* the api call in progress: originalRequest (url, headers, _retry)
     url |-> <<>>, headers |-> NoAuthorization, retry |-> FALSE, cont |-> "none",
     \* the response handler's locals: refreshToken, {access, refresh}, error
     refreshToken |-> None, access |-> None, refresh |-> None,
     error |-> 200, refreshError |-> 200,
     \* what the api call delivered to its caller: status and response.data
     status |-> 200, data |-> NoData,
     \* the operation's locals: role argument, response (token pair), userData
     role |-> "none", response |-> NoData, userData |-> NoUser,
     profileStatus |-> 200,
     \* the operation's outcome: success flag and router.replace destination
     success |-> "none", redirectTo |-> "none",
     \* logout: whether a session existed when it started, and whether
     \* authService.logout() resolved or rejected
     sessionAtStart |-> FALSE, remoteLogout |-> "none",
     \* 401 handler, while its refresh call is pending: the access token
     \* that was stored when it read the refresh token
     accessAtRead |-> None,
     \* register: the two stores as they were when it was called
     before |-> <<>>,
     \* isLoggedIn: its local accessToken and the value it returns
     accessToken |-> None, loggedIn |-> "none",
     \* history of the api call: headers of each transmission, status of each
     \* response, number of refresh calls, transmission that produced the outcome
     sent |-> <<>>, got |-> <<>>, refreshCalls |-> 0, answeredBy |-> 0]

Init ==
    /\ secure = [access_token |-> None, refresh_token |-> None, current_user |-> <<>>]
    /\ mirror = [current_user |-> <<>>, userRole |-> Absent, isLoggedIn |-> Absent]
    /\ issued = 0
    /\ started = 0
    /\ task = [p \in Procs |-> IdleTask]

----
\* Variant of RequestInterceptor with the '/auth/' test inverted.
RequestInterceptor_inverted(url, headers, token) ==
    IF ~Includes(url, <<"auth">>) THEN headers
    ELSE IF token # None THEN Bearer(token)
    ELSE headers

\* api.interceptors.request.use: the headers of the outgoing request, given
\* the request's url, its headers so far and the stored access token.
RequestInterceptor(url, headers, token) ==
    IF Includes(url, <<"auth">>) THEN headers
    ELSE IF token # None THEN Bearer(token)
    ELSE headers

\* api(config): the request interceptor runs and the request is sent.
\* t is the task record with url, headers and retry of the request set.
Transmit(t) ==
    LET h == RequestInterceptor(t.url, t.headers, secure.access_token)
    IN [t EXCEPT !.headers = h, !.sent = Append(@, h), !.pc = "wait"]

\* api.get / api.post / ...: a new request config, then api(config).
\* cont is where the caller resumes when the call settles.
ApiCall(t, url, cont) ==
    Transmit([t EXCEPT !.url = url, !.headers = NoAuthorization, !.retry = FALSE,
                       !.cont = cont, !.refreshToken = None, !.access = None,
                       !.refresh = None, !.error = 200, !.refreshError = 200,
                       !.status = 200, !.data = NoData,
                       !.sent = <<>>, !.got = <<>>, !.refreshCalls = 0,
                       !.answeredBy = 0])

\* The call settles: resolved with response.data or rejected with the error
\* of status `status` (the answer to transmission number `by`).
Settle(t, status, data, by) ==
    [t EXCEPT !.status = status, !.data = data, !.answeredBy = by, !.pc = t.cont]

\* Variant of ShouldRefresh that exempts only the refresh endpoint.
ShouldRefresh_refreshOnly(status, retry, url) ==
    status = 401 /\ ~retry /\ ~Includes(url, <<"auth", "token", "refresh">>)

\* Variant of ShouldRefresh that does not test originalRequest._retry.
ShouldRefresh_noRetryFlag(status, retry, url) ==
    status = 401 /\ ~Includes(url, <<"auth", "token">>)

\* The guard of the response interceptor's error handler (api.ts line 43).
ShouldRefresh(status, retry, url) ==
    status = 401 /\ ~retry /\ ~Includes(url, <<"auth", "token">>)


\* The error the handler rejects with when it gives up (api.ts line 74): the
\* outer `error` of the original request; the catch block's own `error`
\* (the refresh failure) shadows it only inside the catch.
RejectedError(t) == t.error

\* originalRequest.headers.Authorization = `Bearer ${access}` (api.ts line 60)
RetryHeaders(t) == Bearer(t.access)

\* response.data of a 2xx answer, by endpoint.  n is the next token the
\* backend issues.  The refresh endpoint may rotate the refresh token or not;
\* the register endpoint may return a token pair, only an access token, or none.
ResponseData(url, n) ==
    IF url = URL_TOKEN THEN {[access |-> n, refresh |-> n, user_type |-> ""]}
    ELSE IF url = URL_REFRESH THEN
        {[access |-> n, refresh |-> r, user_type |-> ""] : r \in {None, n}}
    ELSE IF url = URL_REGISTER THEN
        {[access |-> n, refresh |-> n, user_type |-> ""],
         [access |-> n, refresh |-> None, user_type |-> ""],
         NoData}
    ELSE IF url = URL_PROFILE THEN
        {[access |-> None, refresh |-> None, user_type |-> ut] : ut \in UserTypes}
    ELSE {NoData}

\* The backend answers 2xx: the response interceptor passes the response on
\* (api.ts line 38) and the call resolves.
RespondOk(p) ==
    LET t == task[p] IN
    /\ t.pc = "wait"
    /\ \E d \in ResponseData(t.url, issued + 1) :
        /\ d.access # None => issued < MaxTok
        /\ issued' = IF d.access # None THEN issued + 1 ELSE issued
        /\ task' = [task EXCEPT ![p] =
                      Settle([t EXCEPT !.got = Append(@, 200)], 200, d, Len(t.sent))]
    /\ UNCHANGED <<secure, mirror, started>>

\* Variant of HasRefreshToken that takes a missing token for a token.
HasRefreshToken_always(refreshToken) == TRUE

\* if (refreshToken)  (api.ts line 50)
HasRefreshToken(refreshToken) == refreshToken # None

\* The backend answers with an error status, or not at all: the response
\* interceptor's error handler (api.ts lines 39-75) up to its first await.
RespondError(p) ==
    LET t == task[p] IN
    /\ t.pc = "wait"
    /\ \E s \in ErrorStatus :
        LET e == [t EXCEPT !.got = Append(@, s), !.error = s] IN
        task' = [task EXCEPT ![p] =
            IF ShouldRefresh(s, t.retry, t.url)
            THEN LET r == [e EXCEPT !.retry = TRUE,
                                    !.refreshToken = secure.refresh_token,
                                    !.accessAtRead = secure.access_token]
                 IN IF HasRefreshToken(r.refreshToken)
                    THEN [r EXCEPT !.refreshCalls = @ + 1, !.pc = "refresh_wait"]
                    ELSE Settle(r, RejectedError(r), NoData, Len(t.sent))
            ELSE Settle(e, RejectedError(e), NoData, Len(t.sent))]
    /\ UNCHANGED <<secure, mirror, issued, started>>

\* Variant of RefreshOk that does not store the new access token.
RefreshOk_notStored(p) ==
    LET t == task[p] IN
    /\ t.pc = "refresh_wait"
    /\ issued < MaxTok
    /\ issued' = issued + 1
    /\ \E d \in ResponseData(URL_REFRESH, issued + 1) :
        task' = [task EXCEPT ![p] =
                   [t EXCEPT !.access = d.access, !.refresh = d.refresh,
                             !.accessAtRead = None, !.pc = "refresh_stored"]]
    /\ UNCHANGED <<secure, mirror, started>>

\* The refresh endpoint accepts the refresh token (api.ts lines 53-54):
\* the new access token is stored.
RefreshOk(p) ==
    LET t == task[p] IN
    /\ t.pc = "refresh_wait"
    /\ issued < MaxTok
    /\ issued' = issued + 1
    /\ \E d \in ResponseData(URL_REFRESH, issued + 1) :
        /\ secure' = [secure EXCEPT !.access_token = d.access]
        /\ task' = [task EXCEPT ![p] =
                      [t EXCEPT !.access = d.access, !.refresh = d.refresh,
                                !.accessAtRead = None, !.pc = "refresh_stored"]]
    /\ UNCHANGED <<mirror, started>>

\* After the access token is stored (api.ts lines 55-63): a rotated refresh
\* token is stored; otherwise the original request is re-issued at once.
HandlerStoreRefresh(p) ==
    LET t == task[p] IN
    /\ t.pc = "refresh_stored"
    /\ IF t.refresh # None
       THEN /\ secure' = [secure EXCEPT !.refresh_token = t.refresh]
            /\ task' = [task EXCEPT ![p] = [t EXCEPT !.pc = "retry"]]
       ELSE /\ task' = [task EXCEPT ![p] =
                          Transmit([t EXCEPT !.headers = RetryHeaders(t)])]
            /\ UNCHANGED secure
    /\ UNCHANGED <<mirror, issued, started>>

\* api.ts lines 60-63 after the rotated refresh token is stored.
HandlerRetry(p) ==
    LET t == task[p] IN
    /\ t.pc = "retry"
    /\ task' = [task EXCEPT ![p] = Transmit([t EXCEPT !.headers = RetryHeaders(t)])]
    /\ UNCHANGED <<secure, mirror, issued, started>>

\* The refresh call fails (api.ts lines 65-67): the catch block deletes the
\* access token.
RefreshFail(p) ==
    LET t == task[p] IN
    /\ t.pc = "refresh_wait"
    /\ \E s \in ErrorStatus :
        task' = [task EXCEPT ![p] = [t EXCEPT !.refreshError = s, !.accessAtRead = None,
                                             !.pc = "refresh_failed"]]
    /\ secure' = [secure EXCEPT !.access_token = None]
    /\ UNCHANGED <<mirror, issued, started>>

\* api.ts lines 68-74: the catch block deletes the refresh token, then the
\* handler rejects.
HandlerClear(p) ==
    LET t == task[p] IN
    /\ t.pc = "refresh_failed"
    /\ secure' = [secure EXCEPT !.refresh_token = None]
    /\ task' = [task EXCEPT ![p] = Settle(t, RejectedError(t), NoData, Len(t.sent))]
    /\ UNCHANGED <<mirror, issued, started>>

----
\* No other task is running an operation.
Solo(p) == \A q \in Procs \ {p} : task[q].pc = "idle"

\* A task may start an operation when it runs none; a new operation takes
\* the lowest-numbered free task (tasks are interchangeable).  With
\* alone = TRUE it starts only when no other operation is in progress;
\* otherwise it may also overlap with a running operation (MaxOverlap times).
Admit(p, alone) ==
    /\ task[p].pc = "idle"
    /\ \A q \in Procs : q < p => task[q].pc # "idle"
    /\ IF Solo(p) THEN UNCHANGED started
       ELSE ~alone /\ started < MaxOverlap /\ started' = started + 1

\* A caller requests a resource through the api client (designService,
\* bookingService, authService.getProfile).
request(p, alone) ==
    /\ Admit(p, alone)
    /\ \E url \in RequestUrls :
        task' = [task EXCEPT ![p] = ApiCall([IdleTask EXCEPT !.op = "request"], url, "done")]
    /\ UNCHANGED <<secure, mirror, issued>>

\* The operation has returned to its caller; the task is free again.
Return(p) ==
    /\ task[p].pc = "done"
    /\ task' = [task EXCEPT ![p] = IdleTask]
    /\ UNCHANGED <<secure, mirror, issued, started>>

----
\* const backendRole = profileResponse.data.user_type || role  (useAuth.ts line 128)
backendRole(user_type, role) == IF user_type # "" THEN user_type ELSE role

\* Variant of userRole that does not normalise the backend value.
userRole_passthrough(backend) == backend

\* const userRole = (backendRole === 'client' || backendRole === 'designer')
\*     ? backendRole : 'client'  (useAuth.ts lines 129-131)
userRole(backend) == IF backend \in {"client", "designer"} THEN backend ELSE "client"

\* Variant of ProfileUser that stores the backend value as the role.
ProfileUser_rawRole(data, role) ==
    [id |-> "profile-id",
     role |-> backendRole(data.user_type, role),
     user_type |-> backendRole(data.user_type, role)]

\* userData built from the profile response (useAuth.ts lines 133-143).
\* The backend's profile carries an id.
ProfileUser(data, role) ==
    [id |-> "profile-id",
     role |-> userRole(backendRole(data.user_type, role)),
     user_type |-> backendRole(data.user_type, role)]

\* Variant of FallbackUser that ignores the caller's role.
FallbackUser_client(role) == [id |-> "temp-id", role |-> "client", user_type |-> role]

\* userData when the profile fetch fails (useAuth.ts lines 150-157).
FallbackUser(role) == [id |-> "temp-id", role |-> role, user_type |-> role]

\* user built by register (useAuth.ts lines 206-212): no user_type field.
RegisterUser(role) == [id |-> "temp-id", role |-> role, user_type |-> "undefined"]

\* Variant of RedirectTo with the two destinations swapped.
RedirectTo_swapped(role) ==
    IF role = "designer" THEN "/(tabs)/home" ELSE "/(designer-tabs)/dashboard"

\* redirectTo (useAuth.ts lines 169-171 and 215-217).
RedirectTo(role) ==
    IF role = "designer" THEN "/(designer-tabs)/dashboard" ELSE "/(tabs)/home"

\* login(email, password, role): authService.login posts the credentials.
login(p, alone) ==
    /\ Admit(p, alone)
    /\ \E role \in UserRole :
        task' = [task EXCEPT ![p] =
                   ApiCall([IdleTask EXCEPT !.op = "login", !.role = role],
                           URL_TOKEN, "login_tokens")]
    /\ UNCHANGED <<secure, mirror, issued>>

\* useAuth.ts lines 115-118 and 176-197: a rejected authService.login is
\* caught and reported; otherwise the access token is stored.
loginStoreAccess(p) ==
    LET t == task[p] IN
    /\ t.pc = "login_tokens"
    /\ IF t.status = 200
       THEN /\ secure' = [secure EXCEPT !.access_token = t.data.access]
            /\ task' = [task EXCEPT ![p] =
                          [t EXCEPT !.response = t.data, !.pc = "login_refresh"]]
       ELSE /\ task' = [task EXCEPT ![p] = [t EXCEPT !.success = FALSE, !.pc = "done"]]
            /\ UNCHANGED secure
    /\ UNCHANGED <<mirror, issued, started>>

\* useAuth.ts lines 119-124: the refresh token is stored, then the profile is
\* fetched.
loginStoreRefresh(p) ==
    LET t == task[p] IN
    /\ t.pc = "login_refresh"
    /\ secure' = [secure EXCEPT !.refresh_token = t.response.refresh]
    /\ task' = [task EXCEPT ![p] = ApiCall(t, URL_PROFILE, "login_profile")]
    /\ UNCHANGED <<mirror, issued, started>>

\* useAuth.ts lines 126-160: userData from the profile, or the fallback when
\* the profile fetch was rejected; then setUserSession is called.
loginProfile(p) ==
    LET t == task[p] IN
    /\ t.pc = "login_profile"
    /\ task' = [task EXCEPT ![p] =
                  [t EXCEPT !.profileStatus = t.status,
                            !.userData = IF t.status = 200
                                         THEN ProfileUser(t.data, t.role)
                                         ELSE FallbackUser(t.role),
                            !.pc = "session_access"]]
    /\ UNCHANGED <<secure, mirror, issued, started>>

\* setAuthTokens(tokens): two writes, one await apart.
setAuthTokens(p) ==
    LET t == task[p] IN
    /\ \/ /\ t.pc = "session_access"
          /\ secure' = [secure EXCEPT !.access_token = t.response.access]
          /\ task' = [task EXCEPT ![p] = [t EXCEPT !.pc = "session_refresh"]]
       \/ /\ t.pc = "session_refresh"
          /\ secure' = [secure EXCEPT !.refresh_token = t.response.refresh]
          /\ task' = [task EXCEPT ![p] = [t EXCEPT !.pc = "session_user"]]
    /\ UNCHANGED <<mirror, issued, started>>

\* The last write of setUserSession, then what login and register do after
\* it: router.replace(redirectTo) and return {success: true}
\* (useAuth.ts lines 62, 169-175 and 215-221).
SessionEstablished(t) ==
    [t EXCEPT !.redirectTo = RedirectTo(t.userData.role), !.success = TRUE, !.pc = "done"]

\* setUserSession(user, tokens) after setAuthTokens: four writes
\* (useAuth.ts lines 59-62).
setUserSession(p) ==
    LET t == task[p] IN
    /\ \/ /\ t.pc = "session_user"
          /\ secure' = [secure EXCEPT !.current_user = JSONstringify(t.userData)]
          /\ task' = [task EXCEPT ![p] = [t EXCEPT !.pc = "session_mirror"]]
          /\ UNCHANGED mirror
       \/ /\ t.pc = "session_mirror"
          /\ mirror' = [mirror EXCEPT !.current_user = JSONstringify(t.userData)]
          /\ task' = [task EXCEPT ![p] = [t EXCEPT !.pc = "session_role"]]
          /\ UNCHANGED secure
       \/ /\ t.pc = "session_role"
          /\ mirror' = [mirror EXCEPT !.userRole = t.userData.role]
          /\ task' = [task EXCEPT ![p] = [t EXCEPT !.pc = "session_flag"]]
          /\ UNCHANGED secure
       \/ /\ t.pc = "session_flag"
          /\ mirror' = [mirror EXCEPT !.isLoggedIn = "true"]
          /\ task' = [task EXCEPT ![p] = SessionEstablished(t)]
          /\ UNCHANGED secure
    /\ UNCHANGED <<issued, started>>

\* register(userData): authService.register posts the user data.
register(p, alone) ==
    /\ Admit(p, alone)
    /\ \E role \in UserRole :
        task' = [task EXCEPT ![p] =
                   ApiCall([IdleTask EXCEPT !.op = "register", !.role = role,
                                            !.before = <<secure, mirror>>],
                           URL_REGISTER, "register_response")]
    /\ UNCHANGED <<secure, mirror, issued>>

\* useAuth.ts lines 203-232: a rejected call is reported; a response with
\* both tokens establishes the session; any other response returns success.
registerResponse(p) ==
    LET t == task[p] IN
    /\ t.pc = "register_response"
    /\ task' = [task EXCEPT ![p] =
        IF t.status # 200 THEN [t EXCEPT !.success = FALSE, !.pc = "done"]
        ELSE IF t.data.access # None /\ t.data.refresh # None
        THEN [t EXCEPT !.response = t.data, !.userData = RegisterUser(t.role),
                       !.pc = "session_access"]
        ELSE [t EXCEPT !.success = TRUE, !.pc = "done"]]
    /\ UNCHANGED <<secure, mirror, issued, started>>

----
\* logout(): authService.logout() first (api.ts lines 94-101), whose finally
\* block deletes access_token; a rejected delete makes authService.logout
\* reject, which logout swallows (.catch(() => {})) before its own finally.
logout(p, alone) ==
    LET t == [IdleTask EXCEPT !.op = "logout",
                              !.sessionAtStart = secure.access_token # None
                                                 /\ mirror.isLoggedIn = "true"]
    IN
    /\ Admit(p, alone)
    /\ \E deleted \in BOOLEAN :
        IF deleted
        THEN /\ secure' = [secure EXCEPT !.access_token = None]
             /\ task' = [task EXCEPT ![p] = [t EXCEPT !.pc = "logout_refresh"]]
        ELSE /\ task' = [task EXCEPT ![p] =
                           [t EXCEPT !.remoteLogout = "rejected", !.pc = "clear_access"]]
             /\ UNCHANGED secure
    /\ UNCHANGED <<mirror, issued>>

\* authService.logout, second delete (api.ts line 99), which may be rejected.
authServiceLogout(p) ==
    LET t == task[p] IN
    /\ t.pc = "logout_refresh"
    /\ \E deleted \in BOOLEAN :
        IF deleted
        THEN /\ secure' = [secure EXCEPT !.refresh_token = None]
             /\ task' = [task EXCEPT ![p] =
                           [t EXCEPT !.remoteLogout = "resolved", !.pc = "clear_access"]]
        ELSE /\ task' = [task EXCEPT ![p] =
                           [t EXCEPT !.remoteLogout = "rejected", !.pc = "clear_access"]]
             /\ UNCHANGED secure
    /\ UNCHANGED <<mirror, issued, started>>

\* Where a task goes when clearAuthTokens has finished: logout goes on to the
\* mirror store; refreshAccessToken returns null.
AfterClear(t) ==
    IF t.op = "logout" THEN [t EXCEPT !.pc = "logout_mirror"]
    ELSE [t EXCEPT !.success = FALSE, !.pc = "done"]

\* clearAuthTokens(): three deletes, one await apart (useAuth.ts lines 48-52).
clearAuthTokens(p) ==
    LET t == task[p] IN
    /\ \/ /\ t.pc = "clear_access"
          /\ secure' = [secure EXCEPT !.access_token = None]
          /\ task' = [task EXCEPT ![p] = [t EXCEPT !.pc = "clear_refresh"]]
       \/ /\ t.pc = "clear_refresh"
          /\ secure' = [secure EXCEPT !.refresh_token = None]
          /\ task' = [task EXCEPT ![p] = [t EXCEPT !.pc = "clear_user"]]
       \/ /\ t.pc = "clear_user"
          /\ secure' = [secure EXCEPT !.current_user = <<>>]
          /\ task' = [task EXCEPT ![p] = AfterClear(t)]
    /\ UNCHANGED <<mirror, issued, started>>

\* Variant of multiRemove that leaves USER_SESSION in the mirror store.
multiRemove_keepsUser(m) == [m EXCEPT !.userRole = Absent, !.isLoggedIn = Absent]

\* AsyncStorage.multiRemove([ROLE_KEY, AUTH_KEY, USER_SESSION])
multiRemove(m) == [current_user |-> <<>>, userRole |-> Absent, isLoggedIn |-> Absent]

\* logout, after clearAuthTokens (useAuth.ts lines 97-98).
logoutMirror(p) ==
    LET t == task[p] IN
    /\ t.pc = "logout_mirror"
    /\ mirror' = multiRemove(mirror)
    /\ task' = [task EXCEPT ![p] = [t EXCEPT !.redirectTo = "/login", !.pc = "done"]]
    /\ UNCHANGED <<secure, issued, started>>

\* refreshAccessToken(): reads the refresh token; without one it returns
\* null, otherwise it posts to the refresh endpoint through `api`.
refreshAccessToken(p, alone) ==
    /\ Admit(p, alone)
    /\ task' = [task EXCEPT ![p] =
        IF secure.refresh_token = None
        THEN [IdleTask EXCEPT !.op = "refreshAccessToken", !.success = FALSE, !.pc = "done"]
        ELSE ApiCall([IdleTask EXCEPT !.op = "refreshAccessToken"],
                     URL_REFRESH, "refresh_response")]
    /\ UNCHANGED <<secure, mirror, issued>>

\* useAuth.ts lines 242-251: the new access token is stored and, if the
\* response has none, the function returns; a rejected call clears the tokens.
refreshAccessTokenStore(p) ==
    LET t == task[p] IN
    /\ t.pc = "refresh_response"
    /\ IF t.status = 200
       THEN /\ secure' = [secure EXCEPT !.access_token = t.data.access]
            /\ task' = [task EXCEPT ![p] =
                          IF t.data.refresh # None
                          THEN [t EXCEPT !.pc = "refresh_rotate"]
                          ELSE [t EXCEPT !.success = TRUE, !.pc = "done"]]
       ELSE /\ task' = [task EXCEPT ![p] = [t EXCEPT !.pc = "clear_access"]]
            /\ UNCHANGED secure
    /\ UNCHANGED <<mirror, issued, started>>

\* useAuth.ts lines 243-247: the rotated refresh token is stored.
refreshAccessTokenRotate(p) ==
    LET t == task[p] IN
    /\ t.pc = "refresh_rotate"
    /\ secure' = [secure EXCEPT !.refresh_token = t.data.refresh]
    /\ task' = [task EXCEPT ![p] = [t EXCEPT !.success = TRUE, !.pc = "done"]]
    /\ UNCHANGED <<mirror, issued, started>>

\* Variant of LoggedIn that requires both the token and the flag.
LoggedIn_both(accessToken, localStatus) ==
    accessToken # None /\ localStatus = "true"

\* return !!accessToken || localStatus === 'true'  (useAuth.ts line 85)
LoggedIn(accessToken, localStatus) ==
    accessToken # None \/ localStatus = "true"

\* isLoggedIn() called when no operation is in progress.
isLoggedIn == LoggedIn(secure.access_token, mirror.isLoggedIn)

\* isLoggedIn(), first read (useAuth.ts line 83): the access token.
isLoggedInRead(p, alone) ==
    /\ Admit(p, alone)
    /\ task' = [task EXCEPT ![p] =
                  [IdleTask EXCEPT !.op = "isLoggedIn",
                                   !.accessToken = secure.access_token,
                                   !.pc = "logged_in_flag"]]
    /\ UNCHANGED <<secure, mirror, issued>>

\* isLoggedIn(), second read and return (useAuth.ts lines 84-85).
isLoggedInReturn(p) ==
    LET t == task[p] IN
    /\ t.pc = "logged_in_flag"
    /\ task' = [task EXCEPT ![p] =
                  [t EXCEPT !.loggedIn = LoggedIn(t.accessToken, mirror.isLoggedIn),
                            !.pc = "done"]]
    /\ UNCHANGED <<secure, mirror, issued, started>>

\* getCurrentUser() called when no operation is in progress (useAuth.ts lines
\* 66-74): the secure record or, when there is none, the mirror record,
\* parsed; NoUser stands for null.
getCurrentUser ==
    LET userData == IF secure.current_user # <<>> THEN secure.current_user
                    ELSE mirror.current_user
    IN IF userData # <<>> THEN JSONparse(userData) ELSE NoUser

\* getUserRole()
getUserRole ==
    IF mirror.userRole \in {"client", "designer"} THEN mirror.userRole ELSE Absent

----
\* A task starts an operation.  With alone = TRUE an operation starts only
\* when no other is in progress.
Start(p, alone) ==
    \/ request(p, alone)
    \/ login(p, alone)
    \/ register(p, alone)
    \/ logout(p, alone)
    \/ refreshAccessToken(p, alone)
    \/ isLoggedInRead(p, alone)

\* A task resumes after an await.
Resume(p) ==
    \/ RespondOk(p)
    \/ RespondError(p)
    \/ RefreshOk(p)
    \/ HandlerStoreRefresh(p)
    \/ HandlerRetry(p)
    \/ RefreshFail(p)
    \/ HandlerClear(p)
    \/ loginStoreAccess(p)
    \/ loginStoreRefresh(p)
    \/ loginProfile(p)
    \/ setAuthTokens(p)
    \/ setUserSession(p)
    \/ registerResponse(p)
    \/ authServiceLogout(p)
    \/ clearAuthTokens(p)
    \/ logoutMirror(p)
    \/ refreshAccessTokenStore(p)
    \/ refreshAccessTokenRotate(p)
    \/ isLoggedInReturn(p)
    \/ Return(p)

\* Operations of different tasks interleave at their awaits.
Next == \E p \in Procs : Start(p, FALSE) \/ Resume(p)

\* Each operation runs to completion before the next one starts.
NextSeq == \E p \in Procs : Start(p, TRUE) \/ Resume(p)

Spec == Init /\ [][Next]_vars

SpecSeq == Init /\ [][NextSeq]_vars

\* Every await settles: a storage operation completes and a network request
\* is answered or fails, so a task that can resume eventually does.
SpecSeqFair == SpecSeq /\ \A p \in Procs : WF_vars(Resume(p))

----
\* Properties

Auth(url) == Includes(url, <<"auth">>)

\* The task is inside the 401 handler of the response interceptor.
InHandler(t) == t.pc \in {"refresh_wait", "refresh_stored", "retry", "refresh_failed"}

\* Number of 401 answers among the responses of the api call.
Count401(got) == Cardinality({i \in 1..Len(got) : got[i] = 401})

\* The headers a request has when the request interceptor starts: none for a
\* new request, the handler's `Bearer ${access}` for a re-issued one.
HeadersBefore(t) ==
    IF t.pc \in {"refresh_stored", "retry"} THEN Bearer(t.access) ELSE NoAuthorization

\* C1: whenever a request to a path without '/auth/' is transmitted, it
\* carries `Bearer <stored access token>` if an access token is stored when
\* the request interceptor runs, and otherwise exactly the headers it had
\* before the interceptor (the interceptor adds no Authorization header).
C1_BearerOnNonAuth ==
    [][\A p \in Procs :
         (task[p].pc # "wait" /\ task'[p].pc = "wait" /\ ~Auth(task'[p].url))
         => LET h == task'[p].sent[Len(task'[p].sent)] IN
            /\ secure.access_token # None => h = Bearer(secure.access_token)
            /\ secure.access_token = None => h = HeadersBefore(task[p])]_vars

C1_Witness ==
    \E p \in Procs :
        /\ task[p].pc = "wait" /\ ~Auth(task[p].url)
        /\ secure.access_token # None
        /\ task[p].sent = <<Bearer(secure.access_token)>>

\* C2: no transmission of a request whose path contains '/auth/' carries an
\* Authorization header, neither the first send nor a re-send.
C2_NoBearerOnAuth ==
    \A p \in Procs :
        Auth(task[p].url)
        => \A i \in 1..Len(task[p].sent) : task[p].sent[i] = NoAuthorization

\* C3: a 401 answer to a request whose path lies in '/auth/' triggers no
\* refresh call and no re-issue, and the handler (the only place where an api
\* call changes the token store) is never entered for it.
C3_NoRefreshOnAuth ==
    \A p \in Procs :
        Auth(task[p].url)
        => /\ task[p].refreshCalls = 0
           /\ Len(task[p].sent) <= 1
           /\ ~InHandler(task[p])

\* C4: a non-auth request that has returned after receiving 401 once, with a
\* refresh token stored and the refresh accepted: one refresh call was made,
\* the new access token (and the new refresh token if rotated, else the old
\* one) is stored, the request went out twice, the second time with
\* `Bearer <new access token>`, and the caller got the second answer.
C4_RefreshAndRetryOnce ==
    \A p \in Procs :
        LET t == task[p] IN
        (/\ t.op = "request" /\ t.pc = "done" /\ ~Auth(t.url)
         /\ Count401(t.got) = 1 /\ t.got[1] = 401
         /\ t.refreshToken # None /\ t.access # None)
        => /\ t.refreshCalls = 1
           /\ secure.access_token = t.access
           /\ secure.refresh_token = (IF t.refresh # None THEN t.refresh ELSE t.refreshToken)
           /\ Len(t.sent) = 2 /\ Len(t.got) = 2
           /\ t.sent[2] = Bearer(t.access)
           /\ t.answeredBy = 2 /\ t.status = t.got[2]

C4_Witness ==
    \E p \in Procs :
        LET t == task[p] IN
        /\ t.op = "request" /\ t.pc = "done" /\ ~Auth(t.url)
        /\ t.got = <<401, 200>> /\ t.refreshCalls = 1
        /\ t.refresh # None /\ t.refresh # t.refreshToken
        /\ secure.refresh_token = t.refresh
        /\ t.sent[2] = Bearer(t.access) /\ t.sent[1] # t.sent[2]

\* C5 (state part): for every api call at most one refresh call is issued and
\* at most two transmissions are made, and when the second transmission is
\* answered 401 the handler is not entered again: the call is rejected with
\* that second 401.
C5_AtMostOneRefresh ==
    \A p \in Procs :
        LET t == task[p] IN
        /\ t.refreshCalls <= 1
        /\ Len(t.sent) <= 2
        /\ (Len(t.got) = 2 /\ t.got[2] = 401)
           => (~InHandler(t) /\ t.pc # "wait" /\ t.status = 401 /\ t.answeredBy = 2)

\* The api call of the task has not settled yet.
InCall(t) == t.pc = "wait" \/ InHandler(t)

\* C5: the state part holds always, and every api call that has been sent
\* settles (resolves or rejects to its caller); in particular every request
\* operation returns.
C5_OneRefreshAndTermination ==
    /\ []C5_AtMostOneRefresh
    /\ \A p \in Procs : InCall(task[p]) ~> ~InCall(task[p])
    /\ \A p \in Procs : (task[p].op = "request") ~> (task[p].pc = "done")

C5_Witness ==
    \E p \in Procs :
        LET t == task[p] IN
        /\ t.op = "request" /\ t.pc = "done"
        /\ t.got = <<401, 401>> /\ t.refreshCalls = 1
        /\ t.status = 401 /\ t.answeredBy = 2

\* C6: when the handler's refresh call has failed and the request has
\* returned, access_token, refresh_token, current_user, userRole and
\* isLoggedIn are all absent, isLoggedIn() is false, and the caller got the
\* original request's 401.
C6_RefreshFailureClearsSession ==
    \A p \in Procs :
        LET t == task[p] IN
        (t.op = "request" /\ t.pc = "done" /\ t.refreshError # 200)
        => /\ secure.access_token = None /\ secure.refresh_token = None
           /\ secure.current_user = <<>> /\ mirror.current_user = <<>>
           /\ mirror.userRole = Absent /\ mirror.isLoggedIn = Absent
           /\ ~isLoggedIn
           /\ t.status = 401 /\ t.answeredBy = 1

\* C7: when logout() has completed, access_token, refresh_token and
\* current_user are absent from secure storage, userRole, isLoggedIn and
\* current_user are absent from the mirror store, and navigation to '/login'
\* has been signalled, whether authService.logout() resolved or rejected.
C7_LogoutClearsAll ==
    \A p \in Procs :
        LET t == task[p] IN
        (t.op = "logout" /\ t.pc = "done")
        => /\ secure.access_token = None /\ secure.refresh_token = None
           /\ secure.current_user = <<>>
           /\ mirror = [current_user |-> <<>>, userRole |-> Absent, isLoggedIn |-> Absent]
           /\ t.redirectTo = "/login"

C7_Witness ==
    \E p \in Procs :
        LET t == task[p] IN
        /\ t.op = "logout" /\ t.pc = "done"
        /\ t.sessionAtStart /\ t.remoteLogout = "rejected"
        /\ ~isLoggedIn

\* The role of the persisted session: the role field of current_user in both
\* stores and the userRole key.
SessionRoleIs(role) ==
    /\ secure.current_user # <<>> /\ JSONparse(secure.current_user).role = role
    /\ mirror.current_user # <<>> /\ JSONparse(mirror.current_user).role = role
    /\ mirror.userRole = role

\* A login that returned success after a successful profile fetch.
LoginWithProfile(t) ==
    t.op = "login" /\ t.pc = "done" /\ t.success = TRUE /\ t.profileStatus = 200

\* C8: after a successful login with a successful profile fetch, user_type
\* 'designer' gives session role 'designer' and the designer destination; an
\* unrecognized non-empty user_type gives session role 'client' and the
\* client destination, whatever role the caller passed; and after every
\* successful login the destination is the designer one iff the session role
\* is 'designer'.
C8_RoleAndDestination ==
    \A p \in Procs :
        LET t == task[p] IN
        /\ (LoginWithProfile(t) /\ t.data.user_type = "designer")
           => (SessionRoleIs("designer") /\ t.userData.role = "designer"
               /\ t.redirectTo = "/(designer-tabs)/dashboard")
        /\ (LoginWithProfile(t) /\ t.data.user_type \notin (UserRole \cup {""}))
           => (SessionRoleIs("client") /\ t.userData.role = "client"
               /\ t.redirectTo = "/(tabs)/home")
        /\ (t.op = "login" /\ t.pc = "done" /\ t.success = TRUE)
           => (/\ SessionRoleIs(t.userData.role)
               /\ t.redirectTo \in {"/(designer-tabs)/dashboard", "/(tabs)/home"}
               /\ (t.redirectTo = "/(designer-tabs)/dashboard"
                   <=> t.userData.role = "designer"))

C8_Witness ==
    \E p \in Procs :
        LET t == task[p] IN
        /\ LoginWithProfile(t) /\ t.role = "designer" /\ t.data.user_type = "admin"
        /\ SessionRoleIs("client") /\ t.redirectTo = "/(tabs)/home"

\* C9 as stated: after a login with a successful profile fetch, a backend
\* user_type outside {client, designer} gives the caller-supplied role.
C9_DefaultsToCallerRole ==
    \A p \in Procs :
        LET t == task[p] IN
        (LoginWithProfile(t) /\ t.data.user_type \notin UserRole)
        => t.userData.role = t.role

\* C9 amended: after a login with a successful profile fetch, a missing or
\* empty user_type gives the caller-supplied role, and a non-empty user_type
\* outside {client, designer} gives 'client', also when the caller passed
\* 'designer'.
C9_DefaultsToClient ==
    \A p \in Procs :
        LET t == task[p] IN
        (LoginWithProfile(t) /\ t.data.user_type \notin UserRole)
        => /\ t.userData.role = (IF t.data.user_type = "" THEN t.role ELSE "client")
           /\ t.userData.user_type = (IF t.data.user_type = "" THEN t.role
                                      ELSE t.data.user_type)

C9_Witness ==
    \E p \in Procs :
        LET t == task[p] IN
        /\ LoginWithProfile(t) /\ t.role = "designer"
        /\ t.data.user_type \notin (UserRole \cup {""})
        /\ t.userData.role = "client"

\* C10: a login whose credentials were accepted and whose profile fetch was
\* rejected (no response, a non-2xx status, or a 401 whose refresh failed)
\* returns success with the minimal user built from its inputs; that user is
\* persisted with the caller-supplied role, the logged-in flag is set, and
\* the destination is the one of the caller-supplied role.
C10_ProfileFailureFallback ==
    \A p \in Procs :
        LET t == task[p] IN
        (t.op = "login" /\ t.pc = "done" /\ t.response.access # None
         /\ t.profileStatus # 200)
        => /\ t.success = TRUE
           /\ t.userData = [id |-> "temp-id", role |-> t.role, user_type |-> t.role]
           /\ secure.current_user = JSONstringify(t.userData)
           /\ SessionRoleIs(t.role)
           /\ mirror.isLoggedIn = "true" /\ isLoggedIn
           /\ t.redirectTo = (IF t.role = "designer" THEN "/(designer-tabs)/dashboard"
                              ELSE "/(tabs)/home")

C10_Witness ==
    \E p \in Procs :
        LET t == task[p] IN
        /\ t.op = "login" /\ t.pc = "done" /\ t.success = TRUE
        /\ t.role = "designer"
        /\ t.profileStatus = 401 /\ t.refreshCalls = 1 /\ t.refreshError # 200
        /\ SessionRoleIs("designer")

----
\* A register that returned after a successful registration response.
RegisterAnswered(t) == t.op = "register" /\ t.pc = "done" /\ t.status = 200

\* C11: after register with a successful registration response, if the
\* response has both tokens then the tokens, the user record, the role and
\* the flag are persisted as a login persists them and the destination is the
\* designer one iff the role is 'designer'; if a token is missing, register
\* returns success, does not navigate, and both stores are as they were when
\* register was called.
C11_RegisterPersistsOrWritesNothing ==
    \A p \in Procs :
        LET t == task[p] IN
        RegisterAnswered(t) =>
            /\ t.success = TRUE
            /\ IF t.data.access # None /\ t.data.refresh # None
               THEN /\ secure.access_token = t.data.access
                    /\ secure.refresh_token = t.data.refresh
                    /\ secure.current_user = JSONstringify(RegisterUser(t.role))
                    /\ SessionRoleIs(t.role)
                    /\ mirror.isLoggedIn = "true"
                    /\ t.redirectTo \in {"/(designer-tabs)/dashboard", "/(tabs)/home"}
                    /\ (t.redirectTo = "/(designer-tabs)/dashboard"
                        <=> t.role = "designer")
               ELSE /\ t.redirectTo = "none"
                    /\ <<secure, mirror>> = t.before

\* A token-bearing register that returned success.
RegisterWithTokens(t) ==
    /\ RegisterAnswered(t) /\ t.success = TRUE
    /\ t.data.access # None /\ t.data.refresh # None

\* C12: a call of isLoggedIn() with no other operation in progress returns
\* true iff an access token is stored in secure storage or the mirror's
\* isLoggedIn flag is 'true'; that condition is false when logout returns and
\* true when a successful login or a token-bearing register returns.
C12_IsLoggedIn ==
    \A p \in Procs :
        LET t == task[p]
            stored == secure.access_token # None \/ mirror.isLoggedIn = "true"
        IN
        /\ (t.op = "isLoggedIn" /\ t.pc = "done")
           => (t.loggedIn \in BOOLEAN /\ (t.loggedIn <=> stored))
        /\ (t.op = "logout" /\ t.pc = "done") => ~stored
        /\ (t.op = "login" /\ t.pc = "done" /\ t.success = TRUE) => stored
        /\ RegisterWithTokens(t) => stored

\* isLoggedIn() returns true on the flag alone: the tokens were deleted by a
\* failed refresh, the mirror still has the flag.
C12_Witness ==
    \E p \in Procs :
        /\ task[p].op = "isLoggedIn" /\ task[p].pc = "done"
        /\ task[p].loggedIn = TRUE
        /\ secure.access_token = None /\ mirror.isLoggedIn = "true"

----
\* Exactly one of the two tokens is stored.
HalfPair == (secure.access_token = None) # (secure.refresh_token = None)

\* The access token of a pair the backend issued (to a login, a register or
\* a rotating refresh) is stored together with a refresh token that is not
\* the one of that pair.
MixedPair ==
    \E p \in Procs :
        LET t == task[p] IN
        \/ /\ t.pc = "refresh_stored" /\ t.refresh # None
           /\ secure.access_token = t.access
           /\ secure.refresh_token \notin {None, t.refresh}
        \/ /\ t.pc \in {"login_refresh", "session_refresh"}
           /\ secure.access_token = t.response.access
           /\ secure.refresh_token \notin {None, t.response.refresh}

\* C13: in no reachable state, the states between the asynchronous steps of
\* login, register, refresh, logout and the refresh-failure clear included,
\* is exactly one of access_token / refresh_token stored, or a newly issued
\* access token stored together with the refresh token of an earlier pair.
\* Every such state is one in which another task can start and read the
\* store.
C13_TokenPairAtomic == ~HalfPair /\ ~MixedPair

----
\* The role of a persisted user record, Absent when there is no record.
RecordRole(json) == IF json = <<>> THEN Absent ELSE JSONparse(json).role

\* C14: in every reachable state the persisted session role (the role of
\* current_user in both stores, and the stored userRole key that
\* getUserRole() reads) is absent or one of 'client' / 'designer'; and when a login returns
\* after a profile fetch that gave a user_type outside that set, the
\* persisted role is 'client'.
C14_SessionRoleValid ==
    /\ RecordRole(secure.current_user) \in UserRole \cup {Absent}
    /\ RecordRole(mirror.current_user) \in UserRole \cup {Absent}
    /\ mirror.userRole \in UserRole \cup {Absent}
    /\ \A p \in Procs :
        (LoginWithProfile(task[p]) /\ task[p].data.user_type \notin UserRole \cup {""})
        => (/\ RecordRole(secure.current_user) = "client"
            /\ RecordRole(mirror.current_user) = "client"
            /\ mirror.userRole = "client" /\ getUserRole = "client")

\* A login as designer whose profile says 'admin' has persisted 'client'.
C14_Witness ==
    \E p \in Procs :
        /\ LoginWithProfile(task[p]) /\ task[p].data.user_type = "admin"
        /\ task[p].role = "designer"
        /\ getUserRole = "client" /\ RecordRole(secure.current_user) = "client"

----
\* The persisted user record, secure copy and mirror copy.
UserRecord == <<secure.current_user, mirror.current_user>>

\* The operation the task that takes this step is running.
StepOp(p) == IF task[p].op # "none" THEN task[p].op ELSE task'[p].op

\* C15: a step changes the persisted user record (either copy) only if it is
\* a step of login or register writing a record, or a step of logout removing
\* one; no step of the interceptor's 401 handling and no step of
\* refreshAccessToken() (success, failure, missing refresh token) changes it.
C15_UserRecordFrame ==
    [][\A p \in Procs :
        (task'[p] # task[p]) =>
            /\ (InCall(task[p]) \/ StepOp(p) = "refreshAccessToken")
               => UserRecord' = UserRecord
            /\ (secure.current_user' # secure.current_user) =>
                  \/ StepOp(p) \in {"login", "register"} /\ secure.current_user' # <<>>
                  \/ StepOp(p) = "logout" /\ secure.current_user' = <<>>
            /\ (mirror.current_user' # mirror.current_user) =>
                  \/ StepOp(p) \in {"login", "register"} /\ mirror.current_user' # <<>>
                  \/ StepOp(p) = "logout" /\ mirror.current_user' = <<>>
      ]_vars

----
\* C16: when a request that was not yet re-sent and is not to a token
\* endpoint is answered 401 while no refresh token is stored, the handler
\* makes no refresh call and does not re-send the request, leaves every
\* stored key of both stores unchanged, and the call rejects to its caller
\* with that 401.
C16_NoRefreshTokenRejects ==
    [][\A p \in Procs :
        LET t == task[p]
            u == task'[p]
        IN
        (/\ t.pc = "wait" /\ u.got = Append(t.got, 401)
         /\ ~t.retry /\ ~Includes(t.url, <<"auth", "token">>)
         /\ secure.refresh_token = None)
        => (/\ u.pc = t.cont /\ u.status = 401 /\ u.error = 401
            /\ u.refreshCalls = t.refreshCalls
            /\ u.sent = t.sent /\ u.answeredBy = Len(t.sent)
            /\ secure' = secure /\ mirror' = mirror)
      ]_vars

\* A request answered 401 with no refresh token stored has rejected with the
\* 401 after one transmission and no refresh call.
C16_Witness ==
    \E p \in Procs :
        LET t == task[p] IN
        /\ t.op = "request" /\ t.pc = "done" /\ ~Includes(t.url, <<"auth", "token">>)
        /\ t.got = <<401>> /\ t.status = 401 /\ Len(t.sent) = 1
        /\ t.retry /\ t.refreshToken = None /\ t.refreshCalls = 0
        /\ secure.refresh_token = None

----
\* C17: when the authentication endpoint answers login's request with a
\* non-2xx status, or does not answer, the handler makes no refresh call and
\* re-sends nothing, login returns failure ({success: false, message}) and
\* does not navigate, and no step of that login, from the call to the return,
\* changes either store.
C17_LoginFailureWritesNothing ==
    [][\A p \in Procs :
        LET t == task[p]
            u == task'[p]
        IN
        /\ (t.pc = "idle" /\ u.op = "login")
           => (secure' = secure /\ mirror' = mirror)
        /\ (/\ t.op = "login" /\ t.pc = "wait" /\ t.url = URL_TOKEN
            /\ \E s \in ErrorStatus : u.got = Append(t.got, s))
           => (/\ u.pc = "login_tokens" /\ u.status # 200
               /\ u.refreshCalls = 0 /\ u.sent = t.sent
               /\ secure' = secure /\ mirror' = mirror)
        /\ (t.op = "login" /\ t.pc = "login_tokens" /\ t.status # 200 /\ u # t)
           => (/\ u.pc = "done" /\ u.success = FALSE /\ u.redirectTo = "none"
               /\ u.refreshCalls = 0 /\ Len(u.sent) = 1
               /\ secure' = secure /\ mirror' = mirror)
      ]_vars

\* A login rejected with 401 while a session with a refresh token is stored
\* has returned failure after one transmission and no refresh call.
C17_Witness ==
    \E p \in Procs :
        LET t == task[p] IN
        /\ t.op = "login" /\ t.pc = "done" /\ t.success = FALSE
        /\ t.got = <<401>> /\ t.refreshCalls = 0 /\ t.redirectTo = "none"
        /\ secure.access_token # None /\ secure.refresh_token # None
        /\ mirror.isLoggedIn = "true"

----
\* C18: the failure handling of a refresh never deletes a token that was
\* stored after its handler read the refresh token: when the handler deletes
\* access_token, the stored one is the one that was stored when it read the
\* refresh token (or none); when it deletes refresh_token, the stored one is
\* the one it read (or none).  So a pair stored meanwhile by another
\* handler's successful refresh or by a login stays stored.
C18_NoStaleClear ==
    [][\A p \in Procs :
        LET t == task[p]
            u == task'[p]
        IN
        /\ (t.pc = "refresh_wait" /\ u.pc = "refresh_failed")
           => secure.access_token \in {None, t.accessAtRead}
        /\ (t.pc = "refresh_failed" /\ u # t)
           => secure.refresh_token \in {None, t.refreshToken}
      ]_vars

----
\* Secure storage holds no token and isLoggedIn() is false.
LoggedOut ==
    /\ secure.access_token = None /\ secure.refresh_token = None
    /\ ~isLoggedIn

\* C19: from the moment logout() has completed, and as long as no login or
\* register is running, secure storage holds no access token and no refresh
\* token and isLoggedIn() is false, whatever a request's 401 handler or a
\* refreshAccessToken() that was in flight during the logout does afterwards.
C19_LogoutIsFinal ==
    \A p \in Procs :
        (/\ task[p].op = "logout" /\ task[p].pc = "done"
         /\ \A q \in Procs \ {p} : task[q].op \notin {"login", "register"})
        => LoggedOut

----
\* C20: when login() returns success, secure storage holds the pair the
\* backend issued last: if the 401 handler refreshed during the profile
\* fetch, the refreshed access token and, when the refresh rotated it, the
\* rotated refresh token; otherwise the pair of the login response.
C20_LatestPairStored ==
    \A p \in Procs :
        LET t == task[p] IN
        (t.op = "login" /\ t.pc = "done" /\ t.success = TRUE) =>
            IF t.refreshCalls > 0 /\ t.access # None
            THEN /\ secure.access_token = t.access
                 /\ secure.refresh_token =
                        IF t.refresh # None THEN t.refresh ELSE t.response.refresh
            ELSE /\ secure.access_token = t.response.access
                 /\ secure.refresh_token = t.response.refresh

----
\* No operation is in progress: every task is idle or has returned.
Quiescent == \A p \in Procs : task[p].pc \in {"idle", "done"}

\* C21: whenever no operation is in progress, the user record of secure
\* storage and the one of the mirror store are both absent or both present
\* and equal, and getCurrentUser() returns null exactly when secure storage
\* holds no user record.
C21_UserRecordsAgree ==
    Quiescent =>
        /\ secure.current_user = mirror.current_user
        /\ (getCurrentUser = NoUser) <=> (secure.current_user = <<>>)

====
